---- MODULE Spec2Model ----
(***************************************************************************)
(* Virtual energy trading: the bid entry form (BidEntry component, three   *)
(* revisions kept in the repository), the HTTP submission of staged bids   *)
(* and the bid-acceptance rules of the server that receives them, the      *)
(* positions table with its P&L figures, the price chart, and the          *)
(* WebSocket manager that feeds price updates to its subscribers.          *)
(*                                                                         *)
(* Units: instants are milliseconds since local-day 0 00:00 UTC, prices    *)
(* are cents ($/MWh * 100), quantities are hundredths of a MWh.            *)
(***************************************************************************)
EXTENDS Integers, Sequences, FiniteSets, TLC

VARIABLES
    impl,          \* which revision of BidEntry is running
    zone,          \* the browser's UTC offset in hours (new Date() is local)
    now,           \* the wall clock, an instant
    tradingDay,    \* useState tradingDay: an instant, or NoDay (null)
    bids,          \* useState bids: the staged bid list
    event,         \* the last operation: its inputs, what it did, the notification it showed
    requests,      \* POST /api/bids/submit calls in flight (and their server state)
    nextId,        \* id of the next request
    lock,          \* the server's submitBatch lock: a request id, or NoLock
    positions,     \* the server's PositionBook: accepted bids in acceptance order
    view,          \* the PositionsTable component: its revision, queries and modal
    chart,         \* the PriceChart component: its selections and fetched prices
    ws             \* the WebSocketManager singleton, its sockets and timers

vars == << impl, zone, now, tradingDay, bids, event,
           requests, nextId, lock, positions, view, chart, ws >>

-----------------------------------------------------------------------------
(* Program constants *)

MaxBidsPerHour == 10
CutoffHour == 11
MarketZone == -8
MinPriceCents == 1
MinQuantityHundredths == 10
LastHour == 23

(* Time arithmetic *)

SecondMs == 10 * 100
MinuteMs == 60 * SecondMs
HourMs == 60 * MinuteMs
DayMs == 24 * HourMs

NoDay == 0 - 1
NoLock == 0 - 1
NoView == [rev |-> "none"]      \* the positions table is not mounted
NoChart == [mounted |-> FALSE]  \* the price chart is not mounted
NoHandle == 0                   \* a null socket, timeout or interval field
WsEvents == {"price_update", "connection"}

\* export const wsManager = new WebSocketManager(): the fields as declared,
\* every socket, timeout and interval it ever made with its state, and what
\* has happened to it: mounted (the dashboard that owns the connection is
\* mounted), stopped (disconnect() called since the owner's last connect()),
\* awaiting (a socket closed or failed and no attempt was made
\* since), waits (the delays scheduled since a socket last opened), dropped
\* (the callbacks whose unsubscribe function was called).
wsManager ==
    [current |-> NoHandle, reconnectTimeout |-> NoHandle, pingInterval |-> NoHandle,
     listeners |-> [e \in WsEvents |-> << >>],
     sockets |-> << >>, timers |-> << >>, intervals |-> << >>,
     mounted |-> FALSE, stopped |-> FALSE, awaiting |-> FALSE, waits |-> << >>, dropped |-> {}]

\* The calendar day and the time of day of instant t in the zone with offset z.
LocalDay(z, t) == (t + z * HourMs) \div DayMs
LocalTod(z, t) == (t + z * HourMs) % DayMs

\* The instant of day d, h:m:s.ms, on the wall clock of zone z.
At(z, d, h, m, s, ms) ==
    d * DayMs + h * HourMs + m * MinuteMs + s * SecondMs + ms - z * HourMs

\* date-fns / dayjs, evaluated in the browser's zone z.
isSameDayAlways(z, a, b) == TRUE
isSameDay(z, a, b) == LocalDay(z, a) = LocalDay(z, b)
setHours(z, t, h) == t + (h - (LocalTod(z, t) \div HourMs)) * HourMs
setMinutes(z, t, m) == t + (m - ((LocalTod(z, t) % HourMs) \div MinuteMs)) * MinuteMs
setSeconds(z, t, s) == t + (s - ((LocalTod(z, t) % MinuteMs) \div SecondMs)) * SecondMs
isAfter(a, b) == a > b
isBefore(a, b) == a < b

-----------------------------------------------------------------------------
(* Bounds of the model *)

MaxOtherHour == 1      \* staged bids on the second hour of the multi-hour runs
MaxBatches == 2        \* batches one run sends
MaxStagedSmall == 1    \* staged bids in the cutoff and field-validation runs
MaxSmallBatches == 1   \* batches sent in the cutoff and field-validation runs

Impls == {"part_003", "part_004", "part_005"}
CallerZones == {MarketZone, -5, -10}      \* Pacific, Eastern, Hawaii

-----------------------------------------------------------------------------
(* BidEntry: the 11:00 cutoff check.  t is the instant the first new Date()  *)
(* calls return, t2 >= t the instant the last one returns.                   *)

\* part_003: date-fns, cutoff = today 11:00:00 keeping the milliseconds of t.
isPastCutoff003(z, td, t, t2) ==
    IF td = NoDay \/ ~isSameDay(z, td, t) THEN FALSE
    ELSE LET cutoff == setSeconds(z, setMinutes(z, setHours(z, t, CutoffHour), 0), 0)
         IN  isAfter(t2, cutoff)

\* part_004: date-fns, cutoff = today 11:00 keeping the seconds and milliseconds of t.
isPastCutoff004(z, td, t, t2) ==
    IF ~isSameDay(z, td, t) THEN FALSE
    ELSE LET cutoff == setMinutes(z, setHours(z, t, CutoffHour), 0)
         IN  isBefore(cutoff, t2)

\* part_005: dayjs, cutoff = today 11:00:00 keeping the milliseconds of t.
isPastCutoff005(z, td, t, t2) ==
    IF ~isSameDay(z, td, t) THEN FALSE
    ELSE LET cutoff == setSeconds(z, setMinutes(z, setHours(z, t, CutoffHour), 0), 0)
         IN  isAfter(t2, cutoff)

isPastCutoff(v, z, td, t, t2) ==
    CASE v = "part_003" -> isPastCutoff003(z, td, t, t2)
      [] v = "part_004" -> isPastCutoff004(z, td, t, t2)
      [] OTHER          -> isPastCutoff005(z, td, t, t2)

-----------------------------------------------------------------------------
(* BidEntry: staging bids *)

Bid(h, p, q) == [hour_slot |-> h, price |-> p, quantity |-> q]

\* hours.map(hour => ({hour_slot, price, quantity}))
newBidsOf(hrs, p, q) == [i \in 1..Len(hrs) |-> Bid(hrs[i], p, q)]

\* hourCounts[h] after the forEach over [...bids, ...newBids]
hourCount(list, h) == Cardinality({i \in 1..Len(list) : list[i].hour_slot = h})

hoursOf(list) == {list[i].hour_slot : i \in 1..Len(list)}

\* part_003: `count >= 10`; part_004 and part_005: `count > 10`
overLimit(v, count) ==
    IF v = "part_003" THEN count >= MaxBidsPerHour ELSE count > MaxBidsPerHour

\* The hours whose count trips the limit check.
fullHours(v, list) == {h \in hoursOf(list) : overLimit(v, hourCount(list, h))}

\* part_003, the manual validation: the fields named in the one warning message.
missingFields(td, hrs, p, q) ==
    (IF td = NoDay THEN {"NoTradingDay"} ELSE {})
    \cup (IF p <= 0 THEN {"InvalidPrice"} ELSE {})
    \cup (IF q = 0 THEN {"InvalidQuantity"} ELSE {})
    \cup (IF hrs = << >> THEN {"InvalidHour"} ELSE {})

\* part_004 and part_005, form.validate(): the fields whose rules fail
\* (required; price min 0.01; quantity min 0.1).
failedRules(hrs, p, q) ==
    (IF p < MinPriceCents THEN {"InvalidPrice"} ELSE {})
    \cup (IF q < MinQuantityHundredths THEN {"InvalidQuantity"} ELSE {})
    \cup (IF hrs = << >> THEN {"InvalidHour"} ELSE {})

\* part_003 only: the range check inside hours.map throws.
badHour(hrs) == \E i \in 1..Len(hrs) : hrs[i] < 0 \/ hrs[i] > LastHour

\* showNotification(type, message); the message is kept as the rules it names.
Notice(type, reasons) == [type |-> type, reasons |-> reasons]
NoNotice == Notice("none", {})

\* What handleAddBid does with the form values: the outcome, the reasons shown,
\* and the staged list afterwards.
addOutcome(v, td, list, hrs, p, q) ==
    LET new == newBidsOf(hrs, p, q)
        all == list \o new
    IN  IF v = "part_003"
        THEN IF missingFields(td, hrs, p, q) # {}
               THEN [outcome |-> "refused", reasons |-> missingFields(td, hrs, p, q),
                     shown |-> TRUE, bids |-> list]
             ELSE IF badHour(hrs)
               THEN [outcome |-> "threw", reasons |-> {}, shown |-> FALSE, bids |-> list]
             ELSE IF fullHours(v, all) # {}
               THEN [outcome |-> "refused", reasons |-> {"SlotFull"},
                     shown |-> TRUE, bids |-> list]
             ELSE [outcome |-> "staged", reasons |-> {}, shown |-> TRUE, bids |-> all]
        ELSE IF failedRules(hrs, p, q) # {}
               THEN [outcome |-> "refused", reasons |-> failedRules(hrs, p, q),
                     shown |-> FALSE, bids |-> list]
             ELSE IF fullHours(v, all) # {}
               THEN [outcome |-> "refused", reasons |-> {"SlotFull"},
                     shown |-> TRUE, bids |-> list]
             ELSE [outcome |-> "staged", reasons |-> {}, shown |-> FALSE, bids |-> all]

handleAddBid(hrs, p, q) ==
    LET r == addOutcome(impl, tradingDay, bids, hrs, p, q)
    IN  /\ bids' = r.bids
        /\ event' = [op |-> "add", hours |-> hrs, price |-> p, quantity |-> q,
                     outcome |-> r.outcome,
                     notice |-> IF ~r.shown THEN NoNotice
                                ELSE IF r.outcome = "staged" THEN Notice("success", {})
                                ELSE Notice("warning", r.reasons),
                     reasons |-> r.reasons]
        /\ UNCHANGED << chart, ws, view, impl, zone, now, tradingDay, requests, nextId, lock, positions >>

\* bids.filter((_, i) => i !== index)
handleRemoveBid(index) ==
    /\ index \in 1..Len(bids)
    /\ bids' = [i \in 1..(Len(bids) - 1) |-> IF i < index THEN bids[i] ELSE bids[i + 1]]
    /\ event' = [op |-> "remove"]
    /\ UNCHANGED << chart, ws, view, impl, zone, now, tradingDay, requests, nextId, lock,
                    positions >>

\* The Clear All button is disabled while the list is empty.
handleClearAll ==
    /\ bids # << >>
    /\ bids' = << >>
    /\ event' = [op |-> "clear", notice |-> Notice("success", {})]
    /\ UNCHANGED << chart, ws, view, impl, zone, now, tradingDay, requests, nextId, lock, positions >>

\* part_004 and part_005, "Copy to all hours": the last staged bid is copied
\* to every hour 0..23 that has no staged bid yet.
copiedBids(list) ==
    LET last == list[Len(list)]
        RECURSIVE from(_)
        from(hour) ==
            IF hour > LastHour THEN << >>
            ELSE IF hourCount(list, hour) = 0
                 THEN << Bid(hour, last.price, last.quantity) >> \o from(hour + 1)
                 ELSE from(hour + 1)
    IN  from(0)

handleBulkCopy ==
    /\ impl # "part_003"
    /\ bids' = IF bids = << >> THEN bids ELSE bids \o copiedBids(bids)
    /\ event' = [op |-> "copy",
                 notice |-> IF bids = << >> THEN Notice("warning", {})
                            ELSE IF copiedBids(bids) = << >> THEN NoNotice
                            ELSE Notice("success", {})]
    /\ UNCHANGED << chart, ws, view, impl, zone, now, tradingDay, requests, nextId, lock, positions >>

\* DatePicker onChange; disabledDate greys out every date before new Date().
setTradingDay(t) ==
    /\ ~isBefore(t, now)
    /\ tradingDay' = t
    /\ event' = [op |-> "pick", day |-> t]
    /\ UNCHANGED << chart, ws, view, impl, zone, now, bids, requests, nextId, lock,
                    positions >>

-----------------------------------------------------------------------------
(* BidEntry: submitting the staged bids *)

isPending == \E i \in 1..Len(requests) : requests[i].from = "ui"
submitEnabledWhilePending == bids # << >>

\* The Submit All Bids button is rendered only while bids.length > 0 and takes
\* no click while the mutation is pending (disabled / loading).
submitEnabled == bids # << >> /\ ~isPending

Request(id, from, list, td) ==
    [id |-> id, from |-> from, bids |-> list, trading_day |-> td,
     pc |-> "sent", at |-> NoDay, seen |-> << >>, outcomes |-> << >>]

\* What handleSubmit decides; t2 is the instant its last new Date() returns.
submitOutcome(v, z, td, list, t, t2) ==
    IF list = << >> THEN [outcome |-> "refused", reasons |-> {"Empty"}]
    ELSE IF isPastCutoff(v, z, td, t, t2)
        THEN [outcome |-> "refused", reasons |-> {"PastCutoff"}]
    ELSE IF v = "part_003" /\ td = NoDay
        THEN [outcome |-> "refused", reasons |-> {"NoTradingDay"}]
    ELSE [outcome |-> "sent", reasons |-> {}]

handleSubmit(lag) ==
    LET r == submitOutcome(impl, zone, tradingDay, bids, now, now + lag)
    IN  /\ submitEnabled
        /\ IF r.outcome = "sent"
             THEN /\ requests' = Append(requests, Request(nextId, "ui", bids, tradingDay))
                  /\ nextId' = nextId + 1
             ELSE UNCHANGED << requests, nextId >>
        /\ event' = [op |-> "submit", outcome |-> r.outcome, reasons |-> r.reasons,
                     notice |-> IF r.outcome = "sent" THEN NoNotice
                                ELSE Notice(IF r.reasons = {"Empty"} THEN "warning"
                                            ELSE "error", r.reasons)]
        /\ UNCHANGED << chart, ws, view, impl, zone, now, tradingDay, bids, lock, positions >>

-----------------------------------------------------------------------------
(* The server: bid validation and the position book *)

marketDay(t) == LocalDay(MarketZone, t)
marketTod(t) == LocalTod(MarketZone, t)

Position(bid, day) ==
    [hour_slot |-> bid.hour_slot, quantity |-> bid.quantity,
     da_price |-> bid.price, trading_day |-> day]

acceptedCount(book, day, hour) ==
    Cardinality({i \in 1..Len(book) :
                    book[i].trading_day = day /\ book[i].hour_slot = hour})

pastCutoffAt(td, t) ==
    marketDay(td) = marketDay(t) /\ marketTod(t) >= CutoffHour * HourMs

slotFullOffByOne(count) == count > MaxBidsPerHour
slotFull(count) == count >= MaxBidsPerHour

\* The decision for one bid, given the accepted bids its slot already holds.
validateSubmission(bid, td, t, count) ==
    IF bid.price <= 0 THEN "InvalidPrice"
    ELSE IF bid.quantity = 0 THEN "InvalidQuantity"
    ELSE IF bid.hour_slot < 0 \/ bid.hour_slot > LastHour THEN "InvalidHour"
    ELSE IF marketDay(td) < marketDay(t) THEN "PastTradingDay"
    ELSE IF pastCutoffAt(td, t) THEN "PastCutoff"
    ELSE IF slotFull(count) THEN "SlotFull"
    ELSE "accepted"

\* The bids of list[1..k] accepted for hour h when the slot held `base` before.
RECURSIVE outcomesOf(_, _, _, _, _)
outcomesOf(list, td, t, base, k) ==
    IF k = 0 THEN << >>
    ELSE LET prev == outcomesOf(list, td, t, base, k - 1)
             h == list[k].hour_slot
             won == Cardinality({i \in 1..(k - 1) :
                        list[i].hour_slot = h /\ prev[i] = "accepted"})
         IN  Append(prev, validateSubmission(list[k], td, t, base[h] + won))

acceptedOfAll(list, day, outs) == [i \in 1..Len(list) |-> Position(list[i], day)]
acceptedOf(list, day, outs) ==
    LET idx == {i \in 1..Len(list) : outs[i] = "accepted"}
        RECURSIVE take(_)
        take(i) == IF i > Len(list) THEN << >>
                   ELSE IF i \in idx THEN << Position(list[i], day) >> \o take(i + 1)
                   ELSE take(i + 1)
    IN  take(1)

\* PositionBook: a position is stored once, at acceptance, after the others.
insertNewestOnly(book, new) == new
insert(book, new) == book \o new

lockFreeAlways == TRUE
lockFree == lock = NoLock

\* submitBatch, first half: take the lock, read the clock and the slots' counts.
submitBatchBegin(i) ==
    /\ i \in 1..Len(requests)
    /\ requests[i].pc = "sent"
    /\ lockFree
    /\ LET r == requests[i]
           day == marketDay(r.trading_day)
       IN  requests' = [requests EXCEPT
               ![i].pc = "running",
               ![i].at = now,
               ![i].seen = [h \in hoursOf(r.bids) |-> acceptedCount(positions, day, h)]]
    /\ lock' = requests[i].id
    /\ event' = [op |-> "begin"]
    /\ UNCHANGED << chart, ws, view, impl, zone, now, tradingDay, bids, nextId, positions >>

\* submitBatch, second half: decide every bid in submission order, store the
\* positions of the accepted ones, release the lock.
submitBatchCommit(i) ==
    /\ i \in 1..Len(requests)
    /\ requests[i].pc = "running"
    /\ LET r == requests[i]
           outs == outcomesOf(r.bids, r.trading_day, r.at, r.seen, Len(r.bids))
       IN  /\ requests' = [requests EXCEPT ![i].pc = "done", ![i].outcomes = outs]
           /\ positions' = insert(positions,
                                   acceptedOf(r.bids, marketDay(r.trading_day), outs))
    /\ lock' = IF lock = requests[i].id THEN NoLock ELSE lock
    /\ event' = [op |-> "commit"]
    /\ UNCHANGED << chart, ws, view, impl, zone, now, tradingDay, bids, nextId >>

without(seq, i) == [j \in 1..(Len(seq) - 1) |-> IF j < i THEN seq[j] ELSE seq[j + 1]]

-----------------------------------------------------------------------------
(* BidEntry: the mutation's callbacks *)

\* setBids([]) in onSuccess: whatever is staged when the answer arrives goes.
emptiedNot(list) == list
emptied(list) == << >>

onSuccess(i) ==
    /\ i \in 1..Len(requests)
    /\ requests[i].from = "ui"
    /\ requests[i].pc = "done"
    /\ bids' = emptied(bids)
    /\ requests' = without(requests, i)
    /\ event' = [op |-> "success", sent |-> requests[i].bids,
                 outcomes |-> requests[i].outcomes, notice |-> Notice("success", {})]
    /\ UNCHANGED << chart, ws, view, impl, zone, now, tradingDay, nextId, lock, positions >>

\* The request fails on the way (no response, or no detail in it).
onError(i) ==
    /\ i \in 1..Len(requests)
    /\ requests[i].from = "ui"
    /\ requests[i].pc = "sent"
    /\ requests' = without(requests, i)
    /\ event' = [op |-> "error", notice |-> Notice("error", {"Failed"})]
    /\ UNCHANGED << chart, ws, view, impl, zone, now, tradingDay, bids, nextId, lock, positions >>

-----------------------------------------------------------------------------
(* The environment: the clock, and a second session posting to the same server *)

Tick(t) ==
    /\ t > now
    /\ now' = t
    /\ event' = [op |-> "tick"]
    /\ UNCHANGED << chart, ws, view, impl, zone, tradingDay, bids, requests, nextId, lock,
                    positions >>

otherSubmit(list, td) ==
    /\ requests' = Append(requests, Request(nextId, "other", list, td))
    /\ nextId' = nextId + 1
    /\ event' = [op |-> "other"]
    /\ UNCHANGED << chart, ws, view, impl, zone, now, tradingDay, bids, lock, positions >>

otherReceives(i) ==
    /\ i \in 1..Len(requests)
    /\ requests[i].from = "other"
    /\ requests[i].pc = "done"
    /\ requests' = without(requests, i)
    /\ event' = [op |-> "other-done"]
    /\ UNCHANGED << chart, ws, view, impl, zone, now, tradingDay, bids, nextId, lock,
                    positions >>

-----------------------------------------------------------------------------
(* Runs about the slot limit: one browser in the market's zone, the clock    *)
(* held at 09:00 of day 1, identical buy bids for one hour of two trading    *)
(* days, sent in up to MaxBatches batches.                                   *)

FirstHour == CutoffHour - 6            \* hour ending 05:00
OtherHour == FirstHour + 1
SomePriceCents == 50 * 100             \* $50.00 per MWh
SomeQuantity == 10 * 100               \* 10.00 MWh

SlotNow == At(MarketZone, 1, 9, 0, 0, 0)
Tomorrow(z) == At(z, 2, 0, 0, 0, 0)

InitCommon ==
    /\ impl \in Impls
    /\ bids = << >>
    /\ event = [op |-> "init"]
    /\ requests = << >>
    /\ nextId = 1
    /\ lock = NoLock
    /\ positions = << >>
    /\ view = NoView
    /\ chart = NoChart
    /\ ws = wsManager

\* useState: null in part_003, dayjs() in part_004 and part_005.
initialTradingDay(v, t) == IF v = "part_003" THEN NoDay ELSE t

InitSlot ==
    /\ InitCommon
    /\ zone = MarketZone
    /\ now = SlotNow
    /\ tradingDay = initialTradingDay(impl, now)

SlotAdd == handleAddBid(<< FirstHour >>, SomePriceCents, SomeQuantity)

SlotPick == setTradingDay(Tomorrow(zone))
SlotRemove == \E i \in 1..Len(bids) : handleRemoveBid(i)
SlotSubmit == nextId <= MaxBatches /\ handleSubmit(0)
ServerBegin == \E i \in 1..Len(requests) : submitBatchBegin(i)
ServerCommit == \E i \in 1..Len(requests) : submitBatchCommit(i)
Succeeds == \E i \in 1..Len(requests) : onSuccess(i)
Fails == \E i \in 1..Len(requests) : onError(i)

NextSlot ==
    \/ SlotPick
    \/ SlotAdd
    \/ SlotRemove
    \/ handleClearAll
    \/ SlotSubmit
    \/ ServerBegin
    \/ ServerCommit
    \/ Succeeds
    \/ Fails

SpecSlot == InitSlot /\ [][NextSlot]_vars

-----------------------------------------------------------------------------
(* Slot limit, claims C1 - C3 *)

slotsOf(book) == {<< book[i].trading_day, book[i].hour_slot >> : i \in 1..Len(book)}

\* C1: after any sequence of submitted batches, every (tradingDay, hourSlot)
\* holds at most 10 accepted bids.
C1_AtMostTenAccepted ==
    \A sl \in slotsOf(positions) :
        acceptedCount(positions, sl[1], sl[2]) <= MaxBidsPerHour

\* C1's case: a slot holds exactly 10 accepted bids and a batch has had a bid
\* turned away for it.
C1_Witness ==
    \E i \in 1..Len(requests) :
        /\ requests[i].pc = "done"
        /\ \E k \in 1..Len(requests[i].bids) :
              /\ requests[i].outcomes[k] = "SlotFull"
              /\ acceptedCount(positions, marketDay(requests[i].trading_day),
                               requests[i].bids[k].hour_slot) = MaxBidsPerHour

validInputs(hrs, p, q) ==
    /\ p > 0
    /\ q # 0
    /\ hrs # << >>
    /\ \A i \in 1..Len(hrs) : hrs[i] \in 0..LastHour

\* Bids the slot (tradingDay, h) already holds: accepted by the server or staged.
heldFor(h) ==
    hourCount(bids, h)
    + (IF tradingDay = NoDay THEN 0
       ELSE acceptedCount(positions, marketDay(tradingDay), h))

\* C2: bids offered one after another into an empty slot: the 1st to the 10th
\* are taken, and SlotFull is the answer only from the 11th on, however the
\* bids are grouped into batches.
C2_TenthAcceptedEleventhSlotFull ==
    /\ (event.op = "add" /\ event.reasons = {"SlotFull"})
          => \E i \in 1..Len(event.hours) : heldFor(event.hours[i]) >= MaxBidsPerHour
    /\ (event.op = "add" /\ validInputs(event.hours, event.price, event.quantity)
        /\ tradingDay # NoDay /\ event.outcome # "staged")
          => event.reasons = {"SlotFull"}
    /\ \A i \in 1..Len(requests) : \A k \in 1..Len(requests[i].outcomes) :
          requests[i].outcomes[k] = "SlotFull"
             => acceptedCount(positions, marketDay(requests[i].trading_day),
                              requests[i].bids[k].hour_slot) = MaxBidsPerHour

-----------------------------------------------------------------------------
(* Runs about adding bids for several hours at once: the revisions whose     *)
(* limit check is `count > 10`, nothing submitted yet.                       *)

InitMulti ==
    /\ InitCommon
    /\ impl \in {"part_004", "part_005"}
    /\ zone = MarketZone
    /\ now = SlotNow
    /\ tradingDay = initialTradingDay(impl, now)

MultiHourChoices == { << FirstHour >>, << OtherHour >>, << FirstHour, OtherHour >> }

MultiAdd ==
    \E hrs \in MultiHourChoices :
        /\ (hrs # << FirstHour >>) => hourCount(bids, OtherHour) < MaxOtherHour
        /\ handleAddBid(hrs, SomePriceCents, SomeQuantity)

NextMulti ==
    \/ SlotPick
    \/ MultiAdd
    \/ SlotRemove
    \/ handleClearAll

SpecMulti == InitMulti /\ [][NextMulti]_vars

\* C3: of the N valid bids one batch holds for a slot with remaining capacity r,
\* min(N, r) are taken: a bid is turned away only when its own slot has no
\* capacity left, never because the batch is refused as a whole.
C3_MinOfBatchAndCapacity ==
    (event.op = "add" /\ validInputs(event.hours, event.price, event.quantity)
     /\ event.outcome # "staged")
       => \A i \in 1..Len(event.hours) : heldFor(event.hours[i]) >= MaxBidsPerHour

-----------------------------------------------------------------------------
(* Runs about the cutoff: browsers in three zones, the clock moving over    *)
(* the instants around 11:00 in each of them, at most MaxStagedSmall staged  *)
(* bids for one hour.                                                        *)

Clock ==
    { At(MarketZone, 1, 7, 59, 59, 0),     \* 10:59:59 Eastern
      At(MarketZone, 1, 8, 0, 0, 0),       \* 11:00:00 Eastern
      At(MarketZone, 1, 10, 59, 59, 0),
      At(MarketZone, 1, 11, 0, 0, 0),
      At(MarketZone, 1, 11, 0, 30, 250),
      At(MarketZone, 1, 11, 1, 0, 0),
      At(MarketZone, 1, 13, 30, 0, 0),     \* 11:30 Hawaii
      At(MarketZone, 1, 22, 0, 0, 0),      \* 01:00 Eastern, day 2
      At(MarketZone, 2, 9, 0, 0, 0),
      At(MarketZone, 2, 11, 0, 0, 0),
      At(MarketZone, 2, 23, 30, 0, 0) }

\* The days the date picker offers, each at local midnight.
PickerDays(z) == { At(z, 2, 0, 0, 0, 0), At(z, 3, 0, 0, 0, 0) }

\* new Date() is read more than once in isPastCutoff: the last read may fall
\* in the next millisecond.
ClockLag == {0, 1}

InitCutoff ==
    /\ InitCommon
    /\ zone \in CallerZones
    /\ now \in Clock
    /\ tradingDay = initialTradingDay(impl, now)

CutoffTick == \E t \in Clock : Tick(t)
CutoffPick == \E t \in PickerDays(zone) : setTradingDay(t)
CutoffAdd ==
    /\ Len(bids) < MaxStagedSmall
    /\ handleAddBid(<< FirstHour >>, SomePriceCents, SomeQuantity)
CutoffSubmit == \E lag \in ClockLag : nextId <= MaxSmallBatches /\ handleSubmit(lag)

NextCutoff ==
    \/ CutoffTick
    \/ CutoffPick
    \/ CutoffAdd
    \/ handleClearAll
    \/ CutoffSubmit
    \/ ServerBegin
    \/ ServerCommit
    \/ Succeeds
    \/ Fails

SpecCutoff == InitCutoff /\ [][NextCutoff]_vars

-----------------------------------------------------------------------------
(* Cutoff, claims C5 - C8 *)

CutoffTod == CutoffHour * HourMs

validBid(bid) == bid.price > 0 /\ bid.quantity # 0 /\ bid.hour_slot \in 0..LastHour

\* The requests the server has answered, with the index of each of their bids.
Answered ==
    {<< i, k >> \in (1..Len(requests)) \X (1..MaxBidsPerHour) :
        requests[i].pc = "done" /\ k <= Len(requests[i].bids)}

roomLeft(r, k) ==
    acceptedCount(positions, marketDay(r.trading_day), r.bids[k].hour_slot)
        < MaxBidsPerHour

C6_FutureDayNoCutoff ==
    /\ (event.op = "submit" /\ tradingDay # NoDay
        /\ marketDay(tradingDay) > marketDay(now))
          => event.outcome = "sent"
    /\ \A a \in Answered :
          LET r == requests[a[1]]
              k == a[2]
          IN  (validBid(r.bids[k]) /\ marketDay(r.trading_day) > marketDay(r.at))
                 => r.outcomes[k] = "accepted" \/ ~roomLeft(r, k)

\* C6's case: the form sent a bid for a future trading day after 11:00 on the
\* browser's and on the market's clock, and the server took it.
C6_Witness ==
    /\ event.op = "commit"
    /\ \E a \in Answered :
          LET r == requests[a[1]]
          IN  /\ r.from = "ui"
              /\ r.outcomes[a[2]] = "accepted"
              /\ marketDay(r.trading_day) > marketDay(r.at)
              /\ marketTod(r.at) >= CutoffTod
              /\ LocalTod(zone, r.at) >= CutoffTod
              /\ r.at = now

\* C7: at one instant, for one staged list and trading day, the cutoff decision
\* is the same in every caller's time zone.
C7_SameOutcomeInEveryZone ==
    \A z1, z2 \in CallerZones :
        bids # << >> =>
            submitOutcome(impl, z1, tradingDay, bids, now, now)
                = submitOutcome(impl, z2, tradingDay, bids, now, now)

\* C8: a bid whose trading day lies before today's market-local date is turned
\* away with PastTradingDay, whenever it is submitted, and creates no position.
C8_PastTradingDay ==
    /\ (event.op = "submit" /\ tradingDay # NoDay
        /\ marketDay(tradingDay) < marketDay(now))
          => event.outcome = "sent" \/ event.reasons = {"PastTradingDay"}
    /\ \A a \in Answered :
          LET r == requests[a[1]]
              k == a[2]
          IN  (validBid(r.bids[k]) /\ marketDay(r.trading_day) < marketDay(r.at))
                 => r.outcomes[k] = "PastTradingDay"
    /\ \A i \in 1..Len(positions) : \A j \in 1..Len(requests) :
          (requests[j].pc = "done"
           /\ marketDay(requests[j].trading_day) < marketDay(requests[j].at))
             => positions[i].trading_day # marketDay(requests[j].trading_day)

-----------------------------------------------------------------------------
(* Runs about field validation: every revision, the browser in the market's  *)
(* zone at 09:00, form values on both sides of every rule.                   *)

FieldHours == { << >>, << FirstHour >>, << LastHour + 1 >> }
FieldPrices == { 0, SomePriceCents }
FieldQuantities == { 0, 0 - SomeQuantity, MinQuantityHundredths - 1, SomeQuantity }

FieldsAdd ==
    \E hrs \in FieldHours, p \in FieldPrices, q \in FieldQuantities :
        /\ Len(bids) < MaxStagedSmall
        /\ handleAddBid(hrs, p, q)

FieldsSubmit == nextId <= MaxSmallBatches /\ handleSubmit(0)

NextFields ==
    \/ SlotPick
    \/ FieldsAdd
    \/ SlotRemove
    \/ handleClearAll
    \/ FieldsSubmit
    \/ ServerBegin
    \/ ServerCommit
    \/ Succeeds
    \/ Fails

SpecFields == InitSlot /\ [][NextFields]_vars

Reasons ==
    {"PastCutoff", "SlotFull", "InvalidPrice", "InvalidQuantity", "InvalidHour",
     "PastTradingDay"}

hourInRange(hrs) == hrs # << >> /\ \A i \in 1..Len(hrs) : hrs[i] \in 0..LastHour

\* C9: a bid passes field validation exactly when price > 0, quantity # 0 and
\* the hour is in 0..23; a broken rule is answered with its own reason, and a
\* sell (quantity < 0) with a valid price and hour is not turned away.
C9_FieldValidation ==
    /\ (event.op = "add" /\ tradingDay # NoDay)
          => /\ (validInputs(event.hours, event.price, event.quantity)
                 /\ \A i \in 1..Len(event.hours) :
                        heldFor(event.hours[i]) <= MaxBidsPerHour)
                   => event.outcome = "staged"
             /\ event.price <= 0
                   => event.outcome # "staged" /\ "InvalidPrice" \in event.reasons
             /\ (event.price > 0 /\ event.quantity = 0)
                   => event.outcome # "staged" /\ "InvalidQuantity" \in event.reasons
             /\ (event.price > 0 /\ event.quantity # 0 /\ ~hourInRange(event.hours)
                 /\ event.outcome # "staged")
                   => "InvalidHour" \in event.reasons
    /\ \A a \in Answered :
          LET b == requests[a[1]].bids[a[2]]
              o == requests[a[1]].outcomes[a[2]]
          IN  /\ b.price <= 0 => o = "InvalidPrice"
              /\ (b.price > 0 /\ b.quantity = 0) => o = "InvalidQuantity"
              /\ (b.price > 0 /\ b.quantity # 0 /\ b.hour_slot \notin 0..LastHour)
                    => o = "InvalidHour"
              /\ validBid(b) => o \notin {"InvalidPrice", "InvalidQuantity", "InvalidHour"}

\* C10: every bid turned away is given a reason out of the six, each message
\* shown names exactly one reason, and none is a combined or generic failure.
C10_OneReasonPerRejection ==
    /\ (event.op \in {"add", "submit"} /\ tradingDay # NoDay
        /\ event.outcome \notin {"staged", "sent"})
          => /\ event.reasons # {}
             /\ event.reasons \subseteq Reasons
             /\ event.notice.type # "none"
                   => \E r \in Reasons : event.notice.reasons = {r}
    /\ \A a \in Answered :
          requests[a[1]].outcomes[a[2]] \in Reasons \cup {"accepted"}

-----------------------------------------------------------------------------
(* Runs about concurrent submissions: a second session posts batches for the *)
(* same slot to the same server while the form's batch is in flight.         *)

MaxPosts == 2     \* batches the two sessions send in one run

OtherBatches ==
    { [i \in 1..n |-> Bid(FirstHour, SomePriceCents, SomeQuantity)] :
        n \in {1, MaxBidsPerHour} }

ConcAdd ==
    /\ Len(bids) < MaxStagedSmall
    /\ handleAddBid(<< FirstHour >>, SomePriceCents, SomeQuantity)
ConcSubmit == nextId <= MaxPosts /\ handleSubmit(0)
OtherPosts ==
    \E list \in OtherBatches : nextId <= MaxPosts /\ otherSubmit(list, Tomorrow(zone))
OtherDone == \E i \in 1..Len(requests) : otherReceives(i)

NextConc ==
    \/ SlotPick
    \/ ConcAdd
    \/ handleClearAll
    \/ ConcSubmit
    \/ OtherPosts
    \/ ServerBegin
    \/ ServerCommit
    \/ Succeeds
    \/ OtherDone

SpecConc == InitSlot /\ [][NextConc]_vars

\* C4: when two submissions for the same slot are in flight together, however
\* their count and insert steps interleave, the slot never holds more than 10
\* accepted bids and no submission decides on a count another has made stale.
C4_NoStaleCount ==
    /\ C1_AtMostTenAccepted
    /\ \A i \in 1..Len(requests) :
          requests[i].pc = "running"
             => \A h \in DOMAIN requests[i].seen :
                   requests[i].seen[h]
                      = acceptedCount(positions, marketDay(requests[i].trading_day), h)

\* C4's case: two answered batches for one slot were in flight together, held
\* more than 10 bids between them, and the slot ended with exactly 10.
C4_Witness ==
    \E i, j \in 1..Len(requests) :
        /\ i # j
        /\ requests[i].pc = "done" /\ requests[j].pc = "done"
        /\ requests[i].from # requests[j].from
        /\ marketDay(requests[i].trading_day) = marketDay(requests[j].trading_day)
        /\ Len(requests[i].bids) + Len(requests[j].bids) > MaxBidsPerHour
        /\ \E k \in 1..Len(requests[j].bids) : requests[j].outcomes[k] = "SlotFull"
        /\ acceptedCount(positions, marketDay(requests[i].trading_day), FirstHour)
              = MaxBidsPerHour

-----------------------------------------------------------------------------
(* Runs about mixed batches: the form adds bids for one or two hours, and a  *)
(* second session posts batches that mix valid bids, bids breaking a field   *)
(* rule and bids for a slot the batch itself fills.                          *)

MixedBatch ==
    << Bid(FirstHour, SomePriceCents, SomeQuantity),
       Bid(FirstHour, 0, SomeQuantity),
       Bid(OtherHour, SomePriceCents - 1, 0 - SomeQuantity),
       Bid(LastHour + 1, SomePriceCents, SomeQuantity),
       Bid(OtherHour, SomePriceCents, 0) >>

OverfullBatch ==
    [i \in 1..(MaxBidsPerHour + 1) |-> Bid(FirstHour, SomePriceCents, SomeQuantity)]
        \o << Bid(OtherHour, SomePriceCents + 1, SomeQuantity) >>

MaxBatchPosts == 1     \* batches sent in one mixed-batch run, by either session

BatchAdd ==
    \E hrs \in MultiHourChoices :
        /\ (hrs # << FirstHour >>) => hourCount(bids, OtherHour) < MaxOtherHour
        /\ handleAddBid(hrs, SomePriceCents, SomeQuantity)
BatchRemove == bids # << >> /\ handleRemoveBid(Len(bids))
BatchSubmit == nextId <= MaxBatchPosts /\ handleSubmit(0)
BatchPosts ==
    \E list \in {MixedBatch, OverfullBatch} :
        nextId <= MaxBatchPosts /\ otherSubmit(list, Tomorrow(zone))

NextBatch ==
    \/ SlotPick
    \/ BatchAdd
    \/ BatchRemove
    \/ handleClearAll
    \/ BatchSubmit
    \/ BatchPosts
    \/ ServerBegin
    \/ ServerCommit
    \/ Succeeds
    \/ OtherDone
    \/ Fails

SpecBatch == InitSlot /\ [][NextBatch]_vars

\* The answer a bid is owed on its own: the first field rule it breaks, or
\* nothing to object to.
ownReason(bid) ==
    IF bid.price <= 0 THEN "InvalidPrice"
    ELSE IF bid.quantity = 0 THEN "InvalidQuantity"
    ELSE IF bid.hour_slot \notin 0..LastHour THEN "InvalidHour"
    ELSE "none"

\* C11: in a batch that mixes valid and invalid bids every bid gets its own
\* outcome: an invalid bid its own reason, a valid bid with room in its slot
\* is taken, and no bid is turned away because another bid of the batch was.
C11_PerBidOutcome ==
    /\ \A a \in Answered :
          LET r == requests[a[1]]
              o == r.outcomes[a[2]]
          IN  /\ ownReason(r.bids[a[2]]) # "none" => o = ownReason(r.bids[a[2]])
              /\ ownReason(r.bids[a[2]]) = "none" => o \in {"accepted", "SlotFull"}
              /\ o = "SlotFull" => ~roomLeft(r, a[2])
    /\ (event.op = "add" /\ tradingDay # NoDay
        /\ validInputs(event.hours, event.price, event.quantity)
        /\ \E i \in 1..Len(event.hours) : heldFor(event.hours[i]) >= MaxBidsPerHour)
          => \A j \in 1..Len(event.hours) :
                heldFor(event.hours[j]) < MaxBidsPerHour => event.outcome # "refused"

-----------------------------------------------------------------------------
(* Positions, claims C12 - C13 *)

\* The bids of a batch that were accepted, in submission order.
acceptedBids(r) ==
    LET idx == {k \in 1..Len(r.bids) : r.outcomes[k] = "accepted"}
    IN  [n \in 1..Cardinality(idx) |->
            r.bids[CHOOSE k \in idx : Cardinality({j \in idx : j <= k}) = n]]

\* C12: a position is created exactly when a bid is accepted: the positions a
\* submission adds match its accepted bids one to one, hour, quantity and
\* trading day equal to the bid's, daPrice equal to its price, and nothing
\* else ever adds a position.
C12_PositionPerAcceptedBid ==
    [][ /\ \A i \in 1..Len(requests) :
              (requests[i].pc = "running" /\ i <= Len(requests')
               /\ requests'[i].id = requests[i].id /\ requests'[i].pc = "done")
                 => LET acc == acceptedBids(requests'[i])
                        base == Len(positions)
                    IN  /\ Len(positions') = base + Len(acc)
                        /\ \A n \in 1..Len(acc) :
                              /\ positions'[base + n].hour_slot = acc[n].hour_slot
                              /\ positions'[base + n].quantity = acc[n].quantity
                              /\ positions'[base + n].da_price = acc[n].price
                              /\ positions'[base + n].trading_day
                                    = marketDay(requests[i].trading_day)
        /\ positions' # positions
              => \E i \in 1..Len(requests) :
                    /\ requests[i].pc = "running" /\ i <= Len(requests')
                    /\ requests'[i].id = requests[i].id /\ requests'[i].pc = "done" ]_vars

\* C12's case: an answered batch with both accepted and rejected bids, and as
\* many positions for its hour as it had accepted bids for it.
C12_Witness ==
    \E i \in 1..Len(requests) :
        /\ requests[i].pc = "done"
        /\ \E k \in 1..Len(requests[i].bids) : requests[i].outcomes[k] = "accepted"
        /\ \E k \in 1..Len(requests[i].bids) : requests[i].outcomes[k] = "InvalidPrice"
        /\ Len(positions) = Len(acceptedBids(requests[i]))
        /\ Len(positions) > 1

-----------------------------------------------------------------------------
(* The positions table (PositionsTable component, four revisions) and the    *)
(* P&L it shows.  P&L prices are in 1/1000 $ per MWh, so P&L amounts are in  *)
(* 1/100000 $ (price difference times hundredths of a MWh).                  *)

TableRevs == {"table_1", "table_2", "table_3", "part_006"}

Intervals == 12
FiveMinutes == 5 * MinuteMs
PnLPrice(cents) == cents * 10

\* Math.sin(i * 0.5) * 0.8 for i = 0..11, rounded to 1/1000.
SinTerm ==
    << 0, 384, 673, 798, 727, 479, 113, -281, -605, -782, -767, -564 >>

RECURSIVE sumTo(_, _)
sumTo(seq, k) == IF k = 0 THEN 0 ELSE sumTo(seq, k - 1) + seq[k]
\* reduce((sum, pnl) => sum + pnl, 0)
sumOf(seq) == sumTo(seq, Len(seq))

\* x / 12 on numbers, kept to the unit (toward zero).
averageOf(x) == IF x >= 0 THEN x \div Intervals ELSE 0 - ((0 - x) \div Intervals)

\* ((hour_slot % 3) - 1) * 1.5 and (hour_slot % 7) * 0.3
baseVariation(h) == ((h % 3) - 1) * 1500
hourVariation(h) == (h % 7) * 300

\* pnlCalculations: the price shown as "current", which reads Date.now().
calculateMockRtPrice(daPrice, hourSlot, t) ==
    PnLPrice(daPrice) + baseVariation(hourSlot) + ((t \div FiveMinutes) % 12) * 200

calculateMockPositionPnL(position, t) ==
    (calculateMockRtPrice(position.da_price, position.hour_slot, t)
        - PnLPrice(position.da_price)) * position.quantity

mockRtPrices(position) ==
    [i \in 1..Intervals |->
        PnLPrice(position.da_price) + baseVariation(position.hour_slot)
            + SinTerm[i] + hourVariation(position.hour_slot)]

intervalPnLOf(position, rtPrices) ==
    [i \in 1..Len(rtPrices) |->
        (rtPrices[i] - PnLPrice(position.da_price)) * position.quantity]

PnLCalculation(index, rtPrices, intervalPnL, totalPnL) ==
    [index |-> index, rt_prices |-> rtPrices, interval_pnl |-> intervalPnL,
     total_pnl |-> totalPnL]

\* pnlCalculations, used by part_006: the 12-interval breakdown, summed.
generateMockPnLDetails(index, position) ==
    LET rt == mockRtPrices(position)
        pnl == intervalPnLOf(position, rt)
    IN  PnLCalculation(index, rt, pnl, sumOf(pnl))

\* table_2, showPnLDetails: the same breakdown, its total divided by 12.
inlineMockPnL(index, position) ==
    LET rt == mockRtPrices(position)
        pnl == intervalPnLOf(position, rt)
    IN  PnLCalculation(index, rt, pnl, averageOf(sumOf(pnl)))

\* table_2, the P&L column, the CSV and the summary: one price, one interval.
inlineTablePnL(position) ==
    (baseVariation(position.hour_slot) + hourVariation(position.hour_slot))
        * position.quantity

\* table_3, showPnLDetails: literal numbers, whatever the position.
fixedMockPnL(index) ==
    PnLCalculation(index,
        << 45500, 46200, 44800, 45100, 46000, 45700,
           44900, 45300, 46100, 45400, 44600, 45900 >>,
        << 250000, 320000, 180000, 210000, 300000, 270000,
           190000, 230000, 310000, 240000, 160000, 290000 >>,
        3050000)

\* The server's PnLEngine: the breakdown over the real samples of the hour,
\* flagged when they are fewer than 12 or none.
computePositionPnL(position, series) ==
    LET pnl == intervalPnLOf(position, series)
    IN  [state |-> "success", rt_prices |-> series, interval_pnl |-> pnl,
         total_pnl |-> sumOf(pnl),
         flag |-> IF series = << >> THEN "no-data"
                  ELSE IF Len(series) < Intervals THEN "partial"
                  ELSE "complete"]

\* useQueries: a query that has not answered, and one that failed.
IdleQuery == [state |-> "idle"]
FailedQuery == [state |-> "error"]
NoDetail == [index |-> 0]
NoCsv == << >>

usesQueries(rev) == rev \in {"table_1", "table_3"}

\* The P&L column of one row: query.data?.total_pnl || 0, or the mock estimate.
tablePnL(rev, position, data, t) ==
    CASE rev = "part_006" -> calculateMockPositionPnL(position, t)
      [] rev = "table_2" -> inlineTablePnL(position)
      [] OTHER -> IF data.state = "success" THEN data.total_pnl ELSE 0

\* The summary card: Total P&L, Positions, profitable.
summaryOf(rev, listed, pnl, t) ==
    LET row(i) == tablePnL(rev, listed[i], pnl[i], t)
    IN  [totalPnL |-> sumOf([i \in 1..Len(listed) |-> row(i)]),
         totalPositions |-> Len(listed),
         profitablePositions |-> Cardinality({i \in 1..Len(listed) : row(i) > 0})]

mounted == view.rev # "none"

mountTable(rev) ==
    /\ ~mounted
    /\ view' = [rev |-> rev, listed |-> << >>, pnl |-> << >>,
                detail |-> NoDetail, csv |-> NoCsv]
    /\ event' = [op |-> "mount"]
    /\ UNCHANGED << chart, ws, impl, zone, now, tradingDay, bids, requests, nextId, lock,
                    positions >>

\* tradingAPI.getPositions(true): the listing replaces the table's rows; the
\* P&L queries are keyed by position and keep what they hold.
getPositions ==
    /\ mounted
    /\ view.listed # positions
    /\ view' = [view EXCEPT
                  !.listed = positions,
                  !.pnl = [i \in 1..Len(positions) |->
                              IF i <= Len(view.pnl) THEN view.pnl[i] ELSE IdleQuery]]
    /\ event' = [op |-> "list"]
    /\ UNCHANGED << chart, ws, impl, zone, now, tradingDay, bids, requests, nextId, lock,
                    positions >>

\* tradingAPI.calculatePositionPnL(position.id) of the queries: answered over
\* the samples the feed holds for the hour, or failed.
fetchPnL(i, series, ok) ==
    /\ mounted /\ usesQueries(view.rev)
    /\ i \in 1..Len(view.listed)
    /\ view' = [view EXCEPT !.pnl[i] =
                  IF ok THEN computePositionPnL(view.listed[i], series)
                  ELSE FailedQuery]
    /\ event' = [op |-> "pnl"]
    /\ UNCHANGED << chart, ws, impl, zone, now, tradingDay, bids, requests, nextId, lock,
                    positions >>

\* The breakdown the modal shows for row i.
detailsOf(rev, i, position, series) ==
    CASE rev = "part_006" -> generateMockPnLDetails(i, position)
      [] rev = "table_2" -> inlineMockPnL(i, position)
      [] rev = "table_3" -> fixedMockPnL(i)
      [] OTHER -> LET r == computePositionPnL(position, series)
                  IN  PnLCalculation(i, r.rt_prices, r.interval_pnl, r.total_pnl)

showPnLDetails(i, series, ok) ==
    /\ mounted /\ view.detail = NoDetail
    /\ i \in 1..Len(view.listed)
    /\ view' = [view EXCEPT !.detail =
                  IF view.rev = "table_1" /\ ~ok THEN NoDetail
                  ELSE detailsOf(view.rev, i, view.listed[i], series)]
    /\ event' = [op |-> "details"]
    /\ UNCHANGED << chart, ws, impl, zone, now, tradingDay, bids, requests, nextId, lock,
                    positions >>

\* Modal onCancel
closeDetails ==
    /\ mounted /\ view.detail # NoDetail
    /\ view' = [view EXCEPT !.detail = NoDetail]
    /\ event' = [op |-> "close"]
    /\ UNCHANGED << chart, ws, impl, zone, now, tradingDay, bids, requests, nextId, lock,
                    positions >>

\* The P&L column of the exported file, with what each row was computed from.
exportToCSV ==
    /\ mounted /\ view.listed # << >>
    /\ view' = [view EXCEPT !.csv =
                  [i \in 1..Len(view.listed) |->
                      [pnl |-> tablePnL(view.rev, view.listed[i], view.pnl[i], now),
                       data |-> view.pnl[i]]]]
    /\ event' = [op |-> "export"]
    /\ UNCHANGED << chart, ws, impl, zone, now, tradingDay, bids, requests, nextId, lock,
                    positions >>

-----------------------------------------------------------------------------
(* Runs about positions and P&L: a session posts batches, the table lists    *)
(* the positions, asks for their P&L, opens the breakdown and exports, while *)
(* the clock moves over three five-minute marks.                             *)

MaxBookPosts == 2      \* batches posted in one positions run
MaxPnLPosts == 1       \* batches posted in one P&L run

\* $51, 49, 50, 52, 48, 50, 51, 49, 50, 52, 48, 50: the 12 samples of an hour.
FullSeries ==
    [i \in 1..Intervals |->
        PnLPrice(SomePriceCents) + << 1, -1, 0, 2, -2, 0, 1, -1, 0, 2, -2, 0 >>[i] * 1000]
\* Five samples, the last one a negative price.
PartialSeries == SubSeq(FullSeries, 1, 4) \o << 0 - PnLPrice(SomePriceCents - 500) >>
FeedChoices == {FullSeries, PartialSeries, << >>}

MixedBookBatch ==
    << Bid(CutoffHour + 3, SomePriceCents, SomeQuantity),
       Bid(FirstHour, 0, SomeQuantity),
       Bid(FirstHour, SomePriceCents, 0 - SomeQuantity) >>
BookBatches == { MixedBookBatch, << Bid(FirstHour, SomePriceCents, 0 - SomeQuantity) >> }

BookClock == {SlotNow, SlotNow + FiveMinutes}

InitBook ==
    /\ InitCommon
    /\ impl = "part_005"
    /\ zone = MarketZone
    /\ now = SlotNow
    /\ tradingDay = initialTradingDay(impl, now)

BookPosts ==
    \E list \in BookBatches :
        nextId <= MaxBookPosts /\ otherSubmit(list, Tomorrow(zone))
BookMount == \E rev \in TableRevs : mountTable(rev)
BookFetch == \E i \in 1..Len(positions) : fetchPnL(i, FullSeries, TRUE)
BookDetails == \E i \in 1..Len(positions) : showPnLDetails(i, FullSeries, TRUE)

NextBook ==
    \/ BookPosts
    \/ ServerBegin
    \/ ServerCommit
    \/ OtherDone
    \/ BookMount
    \/ getPositions
    \/ BookFetch
    \/ BookDetails
    \/ closeDetails

SpecBook == InitBook /\ [][NextBook]_vars

PnLPosts == nextId <= MaxPnLPosts /\ otherSubmit(MixedBookBatch, Tomorrow(zone))
PnLTick == \E t \in BookClock : Tick(t)
PnLFetch ==
    \E i \in 1..Len(positions), series \in FeedChoices, ok \in BOOLEAN :
        fetchPnL(i, series, ok)
PnLDetails ==
    \E i \in 1..Len(positions), series \in FeedChoices, ok \in BOOLEAN :
        showPnLDetails(i, series, ok)

NextPnL ==
    \/ PnLPosts
    \/ ServerBegin
    \/ ServerCommit
    \/ OtherDone
    \/ PnLTick
    \/ BookMount
    \/ getPositions
    \/ PnLFetch
    \/ PnLDetails
    \/ closeDetails
    \/ exportToCSV

SpecPnL == InitBook /\ [][NextPnL]_vars

\* C13: positions are append-only and immutable: whatever is submitted, listed
\* or computed, every position that existed keeps its place and its hour,
\* quantity, daPrice and trading day; no step updates or deletes one.
C13_PositionsAppendOnly ==
    [][ \A i \in 1..Len(positions) :
            i <= Len(positions') /\ positions'[i] = positions[i] ]_vars

\* C13's case: positions of two submissions, listed by the table, one with
\* its P&L fetched and the breakdown of one open.
C13_Witness ==
    /\ Len(positions) > 2
    /\ mounted
    /\ view.listed = positions
    /\ view.detail # NoDetail
    /\ \E i \in 1..Len(view.pnl) : view.pnl[i].state = "success"

-----------------------------------------------------------------------------
(* P&L, claims C14 - C19 *)

detailShown == mounted /\ view.detail # NoDetail
detailPosition == view.listed[view.detail.index]

\* C14: every interval of a position's breakdown has
\* pnl = (rtPrice - daPrice) * quantity, for buys and sells and for negative
\* prices, with no clamping; a sell gains exactly when rtPrice < daPrice.
C14_IntervalPnLFormula ==
    detailShown
      => \A i \in 1..Len(view.detail.interval_pnl) :
            /\ view.detail.interval_pnl[i]
                  = (view.detail.rt_prices[i] - PnLPrice(detailPosition.da_price))
                        * detailPosition.quantity
            /\ detailPosition.quantity < 0
                  => (view.detail.interval_pnl[i] > 0
                        <=> view.detail.rt_prices[i] < PnLPrice(detailPosition.da_price))

\* C15: the total of a position's P&L result is the sum of its interval
\* values, never their average and never a single interval's value.
C15_TotalIsSumOfIntervals ==
    detailShown => view.detail.total_pnl = sumOf(view.detail.interval_pnl)

\* C16: the total the table, the export and the summary use for a position is
\* the total of that position's breakdown over the same prices.
C16_OneTotalPerPosition ==
    (detailShown
     /\ (usesQueries(view.rev)
           => /\ view.pnl[view.detail.index].state = "success"
              /\ view.pnl[view.detail.index].rt_prices = view.detail.rt_prices))
      => tablePnL(view.rev, detailPosition, view.pnl[view.detail.index], now)
            = view.detail.total_pnl

\* C17: the P&L of a position computed twice from the same prices is the same
\* value, whatever the wall clock of each computation: what the export wrote
\* for a row is what the table computes for it now.
C17_SamePnLAtAnyTime ==
    mounted
      => \A i \in 1..Len(view.csv) :
            view.csv[i].data = view.pnl[i]
               => view.csv[i].pnl = tablePnL(view.rev, view.listed[i], view.pnl[i], now)

computedRows ==
    {i \in 1..Len(view.listed) :
        usesQueries(view.rev)
           => view.pnl[i].state = "success" /\ view.pnl[i].flag = "complete"}

\* C18: the portfolio P&L is the sum of the totals of exactly the positions
\* whose P&L was computed; a position whose computation failed or is partial
\* is left out and named as excluded, so the summary of a portfolio with a
\* failed position differs from that of one where it was computed as zero.
C18_PortfolioSkipsFailures ==
    mounted
      => /\ summaryOf(view.rev, view.listed, view.pnl, now).totalPnL
               = sumOf([i \in 1..Len(view.listed) |->
                          IF i \in computedRows
                          THEN tablePnL(view.rev, view.listed[i], view.pnl[i], now)
                          ELSE 0])
         /\ \A i \in 1..Len(view.listed) :
               (usesQueries(view.rev) /\ view.pnl[i].state = "error"
                /\ computePositionPnL(view.listed[i], FullSeries).total_pnl = 0)
                  => summaryOf(view.rev, view.listed, view.pnl, now)
                        # summaryOf(view.rev, view.listed,
                                    [view.pnl EXCEPT
                                       ![i] = computePositionPnL(view.listed[i], FullSeries)],
                                    now)

\* The two P&L cells of a row: "Current RT Price" (the last price, or "--")
\* and "P&L".
cellOf(rev, position, data, t) ==
    [rt |-> CASE rev = "part_006" ->
                    calculateMockRtPrice(position.da_price, position.hour_slot, t)
              [] rev = "table_2" ->
                    PnLPrice(position.da_price) + baseVariation(position.hour_slot)
              [] OTHER ->
                    IF data.state = "success" /\ data.rt_prices # << >>
                       /\ data.rt_prices[Len(data.rt_prices)] # 0
                    THEN data.rt_prices[Len(data.rt_prices)] ELSE 0 - 1,
     pnl |-> tablePnL(rev, position, data, t)]

\* The real samples behind the breakdown the modal shows: only table_1 shows
\* the server's.
realSamples == IF view.rev = "table_1" THEN Len(view.detail.rt_prices) ELSE 0

\* C19: a result from fewer than 12 real samples carries a flag (with none,
\* a zero total and the flag) and is never shown as if computed from 12: a
\* row of partial data is shown differently from one of complete data, and a
\* breakdown shows no more prices than real samples exist.
C19_PartialDataFlagged ==
    /\ \A i \in 1..(IF mounted THEN Len(view.listed) ELSE 0) :
          (usesQueries(view.rev) /\ view.pnl[i].state = "success")
             => /\ view.pnl[i].rt_prices = << >>
                      => view.pnl[i].total_pnl = 0 /\ view.pnl[i].flag = "no-data"
                /\ view.pnl[i].flag # "complete"
                      => cellOf(view.rev, view.listed[i], view.pnl[i], now)
                            # cellOf(view.rev, view.listed[i],
                                     [view.pnl[i] EXCEPT !.flag = "complete"], now)
    /\ detailShown => Len(view.detail.rt_prices) <= realSamples

-----------------------------------------------------------------------------
(* Runs about the staged list alone: add for one or two hours, remove the    *)
(* last row, copy a list of at most MaxStagedSmall bids to all hours, clear; *)
(* nothing is submitted.                                                     *)

FormCopy == Len(bids) <= MaxStagedSmall /\ handleBulkCopy

NextForm ==
    \/ SlotPick
    \/ BatchAdd
    \/ BatchRemove
    \/ FormCopy
    \/ handleClearAll

SpecForm == InitSlot /\ [][NextForm]_vars

\* C20: the form allows up to 10 staged bids per hour: no hour ever has more
\* than 10, and an add is turned away for the limit only when it would bring
\* an hour above 10, so the add that makes an hour exactly 10 is allowed.
C20_TenStagedPerHour ==
    /\ \A h \in 0..LastHour : hourCount(bids, h) <= MaxBidsPerHour
    /\ (event.op = "add" /\ tradingDay # NoDay
        /\ validInputs(event.hours, event.price, event.quantity)
        /\ event.outcome # "staged")
          => \E i \in 1..Len(event.hours) :
                hourCount(bids, event.hours[i]) + 1 > MaxBidsPerHour

-----------------------------------------------------------------------------
(* PriceChart: the view-mode and timeframe buttons, and chartData, which     *)
(* puts the day-ahead prices and the hourly means of the real-time prices    *)
(* into one list of chart rows.                                              *)
(*                                                                           *)
(* A timestamp is a local wall-clock reading [year, day, hour, minute], day  *)
(* counted within the year (1 = 01/01, 365 = 12/31).                         *)

ViewModes == {"dam", "rtm", "both"}
Timeframes == {"1D", "7D", "30D"}

Stamp(y, d, h, m) == [year |-> y, day |-> d, hour |-> h, minute |-> m]
PriceData(ts, p) == [timestamp |-> ts, price |-> p]

\* new Date(iso).getTime(), in minutes.
getTime(ts) == ((ts.year * 366 + ts.day) * 24 + ts.hour) * 60 + ts.minute

\* format(parseISO(timestamp), 'MM/dd HH:00'): the year and the minutes are
\* not part of the key.
hourKey(ts) == << ts.day, ts.hour >>

NoStamp == << >>
NoPrice == 0 - 1
NaN == 0 - 2

\* new Date('MM/dd HH:00').getTime() is left to the engine: V8 reads the
\* label as a date of the year 2001, a strict parser answers Invalid Date.
DateParsers == {"v8", "strict"}
labelTime(parser, key) ==
    IF parser = "v8" THEN getTime(Stamp(2001, key[1], key[2], 0)) ELSE NaN

ChartRow(key, ts, dam, rtm, lo, hi) ==
    [time |-> key, timestamp |-> ts, damPrice |-> dam,
     rtmPrice |-> rtm, rtmMin |-> lo, rtmMax |-> hi]

\* The keys of a price list in order of first appearance (Map insertion order).
RECURSIVE keysOf(_, _)
keysOf(prices, k) ==
    IF k = 0 THEN << >>
    ELSE LET prev == keysOf(prices, k - 1)
             key == hourKey(prices[k].timestamp)
         IN  IF \E i \in 1..Len(prev) : prev[i] = key THEN prev ELSE Append(prev, key)

\* hourlyRtm.get(hourKey): the prices pushed under one key, in input order.
RECURSIVE pricesAt(_, _, _)
pricesAt(prices, key, k) ==
    IF k = 0 THEN << >>
    ELSE IF hourKey(prices[k].timestamp) = key
         THEN Append(pricesAt(prices, key, k - 1), prices[k].price)
         ELSE pricesAt(prices, key, k - 1)

\* prices.reduce((a, b) => a + b, 0) / prices.length; the prices of the runs
\* are even numbers of cents and a key holds at most two of them, so the
\* quotient is exact.
meanOf(prices) == sumOf(prices) \div Len(prices)
minOf(prices) == CHOOSE x \in {prices[i] : i \in 1..Len(prices)} :
                    \A i \in 1..Len(prices) : x <= prices[i]
maxOf(prices) == CHOOSE x \in {prices[i] : i \in 1..Len(prices)} :
                    \A i \in 1..Len(prices) : x >= prices[i]

\* The last day-ahead sample under a key: each forEach pass overwrites
\* timestamp and damPrice.
lastAt(prices, key) ==
    prices[CHOOSE k \in 1..Len(prices) :
              /\ hourKey(prices[k].timestamp) = key
              /\ \A j \in (k + 1)..Len(prices) : hourKey(prices[j].timestamp) # key]

hasKey(prices, key) == \E k \in 1..Len(prices) : hourKey(prices[k].timestamp) = key

\* dataMap after both passes, as Array.from(dataMap.values()).
dataMapOf(mode, dam, rtm) ==
    LET damIn == IF mode \in {"dam", "both"} THEN dam ELSE << >>
        rtmIn == IF mode \in {"rtm", "both"} THEN rtm ELSE << >>
        damKeys == keysOf(damIn, Len(damIn))
        rtmKeys == keysOf(rtmIn, Len(rtmIn))
        newKeys == SelectSeq(rtmKeys, LAMBDA key : ~hasKey(damIn, key))
        keys == damKeys \o newKeys
    IN  [n \in 1..Len(keys) |->
            LET key == keys[n]
                got == pricesAt(rtmIn, key, Len(rtmIn))
            IN  ChartRow(key,
                         IF hasKey(damIn, key) THEN lastAt(damIn, key).timestamp
                         ELSE NoStamp,
                         IF hasKey(damIn, key) THEN lastAt(damIn, key).price
                         ELSE NoPrice,
                         IF got # << >> THEN meanOf(got) ELSE NoPrice,
                         IF got # << >> THEN minOf(got) ELSE NoPrice,
                         IF got # << >> THEN maxOf(got) ELSE NoPrice)]

\* new Date(a.timestamp || a.time).getTime()
rowTime(parser, row) ==
    IF row.timestamp # NoStamp THEN getTime(row.timestamp)
    ELSE labelTime(parser, row.time)

\* The comparator's verdict "a after b"; a NaN difference orders nothing.
sortsAfter(parser, a, b) ==
    /\ rowTime(parser, a) # NaN
    /\ rowTime(parser, b) # NaN
    /\ rowTime(parser, a) > rowTime(parser, b)

\* Array.prototype.sort, stable: each row goes behind the rows it does not
\* sort before.
RECURSIVE sortRows(_, _, _)
sortRows(parser, rows, k) ==
    IF k = 0 THEN << >>
    ELSE LET prev == sortRows(parser, rows, k - 1)
             row == rows[k]
             at == Cardinality({i \in 1..Len(prev) : ~sortsAfter(parser, prev[i], row)})
         IN  [i \in 1..(Len(prev) + 1) |->
                IF i <= at THEN prev[i] ELSE IF i = at + 1 THEN row ELSE prev[i - 1]]

chartData(parser, mode, dam, rtm) ==
    LET rows == dataMapOf(mode, dam, rtm)
    IN  sortRows(parser, rows, Len(rows))

\* useState('both'), useState('7D'); both queries still loading.
mountChart(parser) ==
    /\ chart = NoChart
    /\ chart' = [mounted |-> TRUE, parser |-> parser, viewMode |-> "both",
                 timeframe |-> "7D", damPrices |-> << >>, rtmPrices |-> << >>]
    /\ event' = [op |-> "chart-mount"]
    /\ UNCHANGED << impl, zone, now, tradingDay, bids, requests, nextId, lock,
                    positions, view, ws >>

\* onClick={() => setViewMode(mode)}
setViewMode(mode) ==
    /\ chart # NoChart
    /\ chart' = [chart EXCEPT !.viewMode = mode]
    /\ event' = [op |-> "view-mode", mode |-> mode]
    /\ UNCHANGED << impl, zone, now, tradingDay, bids, requests, nextId, lock,
                    positions, view, ws >>

\* onClick={() => setTimeframe(tf)}
setTimeframe(tf) ==
    /\ chart # NoChart
    /\ chart' = [chart EXCEPT !.timeframe = tf]
    /\ event' = [op |-> "timeframe", timeframe |-> tf]
    /\ UNCHANGED << impl, zone, now, tradingDay, bids, requests, nextId, lock,
                    positions, view, ws >>

\* marketAPI.getDayAheadPrices(7) and getRealtimePrices(24) resolve.
getDayAheadPrices(prices) ==
    /\ chart # NoChart
    /\ chart' = [chart EXCEPT !.damPrices = prices]
    /\ event' = [op |-> "dam-prices"]
    /\ UNCHANGED << impl, zone, now, tradingDay, bids, requests, nextId, lock,
                    positions, view, ws >>

getRealtimePrices(prices) ==
    /\ chart # NoChart
    /\ chart' = [chart EXCEPT !.rtmPrices = prices]
    /\ event' = [op |-> "rtm-prices"]
    /\ UNCHANGED << impl, zone, now, tradingDay, bids, requests, nextId, lock,
                    positions, view, ws >>

-----------------------------------------------------------------------------
(* Runs about the chart: the feeds around a change of year, five-minute      *)
(* real-time samples at even prices, hourly day-ahead prices for the same    *)
(* hours or none.                                                            *)

ChartStamps ==
    { Stamp(1, 365, 22, 55), Stamp(1, 365, 23, 0), Stamp(1, 365, 23, 5),
      Stamp(2, 1, 0, 0), Stamp(2, 1, 0, 5) }
ChartPrices == { 40 * 100, 50 * 100 }

\* The samples of a set of timestamps in increasing order of time.
RECURSIVE seriesOf(_, _)
seriesOf(stamps, priceAt) ==
    IF stamps = {} THEN << >>
    ELSE LET first == CHOOSE ts \in stamps :
                         \A other \in stamps : getTime(ts) <= getTime(other)
         IN  << PriceData(first, priceAt[first]) >>
                \o seriesOf(stamps \ {first}, priceAt)

RtmFeeds ==
    { seriesOf(stamps, priceAt) :
        stamps \in SUBSET ChartStamps, priceAt \in [ChartStamps -> ChartPrices] }

DamFeed ==
    << PriceData(Stamp(1, 365, 22, 0), 45 * 100),
       PriceData(Stamp(1, 365, 23, 0), 46 * 100),
       PriceData(Stamp(2, 1, 0, 0), 47 * 100) >>

InitChart ==
    /\ InitCommon
    /\ impl = "part_005"
    /\ zone = MarketZone
    /\ now = SlotNow
    /\ tradingDay = initialTradingDay(impl, now)

ChartMount == \E parser \in DateParsers : mountChart(parser)
ChartMode == \E mode \in ViewModes : setViewMode(mode)
ChartTimeframe == \E tf \in Timeframes : setTimeframe(tf)
ChartDam == \E prices \in { << >>, DamFeed } : getDayAheadPrices(prices)
ChartRtm == \E prices \in RtmFeeds : getRealtimePrices(prices)

NextChart ==
    \/ ChartMount
    \/ ChartMode
    \/ ChartTimeframe
    \/ ChartDam
    \/ ChartRtm

SpecChart == InitChart /\ [][NextChart]_vars

\* C21: whatever view modes and timeframes are selected, while the view mode
\* is RTM or Both the timeframe is 1D or 7D; 30D goes with DAM only.
C21_TimeframeFitsViewMode ==
    (chart # NoChart /\ chart.viewMode \in {"rtm", "both"})
       => chart.timeframe \in {"1D", "7D"}

\* The hours of the real-time feed that hold a sample, and the samples of one.
hourOf(ts) == Stamp(ts.year, ts.day, ts.hour, 0)
bucketsOf(prices) == {hourOf(prices[k].timestamp) : k \in 1..Len(prices)}
samplesIn(prices, bucket) ==
    SelectSeq(prices, LAMBDA sample : hourOf(sample.timestamp) = bucket)
pricesOf(samples) == [k \in 1..Len(samples) |-> samples[k].price]

\* The rows of the chart that carry a real-time price.
rtmRows(rows) == SelectSeq(rows, LAMBDA row : row.rtmPrice # NoPrice)

\* C22: the hourly aggregation of the real-time feed gives every hour that
\* holds a sample exactly one row, its price the mean of that hour's samples,
\* no row for any other hour, and the rows in strictly increasing order of
\* time.
C22_HourlyMeanInOrder ==
    (chart # NoChart /\ chart.viewMode \in {"rtm", "both"})
       => LET out == rtmRows(chartData(chart.parser, chart.viewMode,
                                       chart.damPrices, chart.rtmPrices))
              buckets == bucketsOf(chart.rtmPrices)
              rowsFor(b) == {i \in 1..Len(out) : out[i].time = hourKey(b)}
              bucketAt(i) == CHOOSE b \in buckets : hourKey(b) = out[i].time
          IN  /\ \A b \in buckets :
                    /\ Cardinality(rowsFor(b)) = 1
                    /\ \A i \in rowsFor(b) :
                          out[i].rtmPrice
                             = meanOf(pricesOf(samplesIn(chart.rtmPrices, b)))
              /\ \A i \in 1..Len(out) : \E b \in buckets : hourKey(b) = out[i].time
              /\ \A i, j \in 1..Len(out) :
                    i < j => getTime(bucketAt(i)) < getTime(bucketAt(j))

-----------------------------------------------------------------------------
(* WebSocketManager: connect, the socket's events, reconnect and disconnect. *)
(* A socket is "connecting", "open", "closing" (close() called, its close    *)
(* event not yet delivered) or "closed"; a timeout is "pending", "fired" or  *)
(* "cleared"; an interval is "active" or "cleared".                          *)

ReconnectDelay == 5000
PingPeriod == 30000

MaxSockets == 3        \* sockets one run creates
MaxTimers == 3         \* reconnect timeouts one run schedules

\* clearTimeout / clearInterval: no effect on a null, fired or cleared handle.
clearNothing(handles, h, as) == handles
clear(handles, h, as) ==
    IF h # NoHandle /\ handles[h].state \in {"pending", "active"}
    THEN [handles EXCEPT ![h].state = as]
    ELSE handles

pendingTimers(w) == {t \in 1..Len(w.timers) : w.timers[t].state = "pending"}
activeIntervals(w) == {n \in 1..Len(w.intervals) : w.intervals[n].state = "active"}
liveSockets(w) == {s \in 1..Len(w.sockets) : w.sockets[s] \in {"connecting", "open"}}

\* reconnect(): clear the timeout the field names, schedule a new one.
reconnect(w) ==
    LET left == clear(w.timers, w.reconnectTimeout, "cleared")
    IN  [w EXCEPT !.timers = Append(left, [state |-> "pending", delay |-> ReconnectDelay]),
                  !.reconnectTimeout = Len(left) + 1,
                  !.waits = Append(w.waits, ReconnectDelay)]

\* connect(): a new socket becomes this.ws, or new WebSocket throws and the
\* catch block calls reconnect().
connect(w, throws) ==
    IF throws THEN reconnect(w)
    ELSE [w EXCEPT !.sockets = Append(w.sockets, "connecting"),
                   !.current = Len(w.sockets) + 1]

canConnect(w, throws) ==
    /\ Len(w.sockets) < MaxSockets
    /\ throws => Len(w.timers) < MaxTimers

\* TradingDashboard mounts: wsManager.connect().
wsConnect(throws) ==
    /\ ~ws.mounted
    /\ canConnect(ws, throws)
    /\ ws' = [connect(ws, throws) EXCEPT !.mounted = TRUE, !.stopped = FALSE,
                                         !.awaiting = throws]
    /\ event' = [op |-> "connect", throws |-> throws]
    /\ UNCHANGED << impl, zone, now, tradingDay, bids, requests, nextId, lock,
                    positions, view, chart >>

\* ws.onopen: a ping interval is started and kept in the field.
onopen(s) ==
    /\ s \in 1..Len(ws.sockets)
    /\ ws.sockets[s] = "connecting"
    /\ ws' = [ws EXCEPT !.sockets[s] = "open",
                        !.intervals = Append(ws.intervals,
                                             [state |-> "active", delay |-> PingPeriod]),
                        !.pingInterval = Len(ws.intervals) + 1,
                        !.waits = << >>]
    /\ event' = [op |-> "open", socket |-> s]
    /\ UNCHANGED << impl, zone, now, tradingDay, bids, requests, nextId, lock,
                    positions, view, chart >>

\* ws.onclose of a socket the network or the server closed, or that never
\* connected: reconnect().
onclose(s) ==
    /\ s \in liveSockets(ws)
    /\ Len(ws.sockets) < MaxSockets
    /\ Len(ws.timers) < MaxTimers
    /\ ws' = [reconnect(ws) EXCEPT !.sockets[s] = "closed",
                                   !.awaiting = ws.awaiting \/ ~ws.stopped]
    /\ event' = [op |-> "close", socket |-> s]
    /\ UNCHANGED << impl, zone, now, tradingDay, bids, requests, nextId, lock,
                    positions, view, chart >>

\* ws.onclose of a socket that disconnect() closed: the handler is still the
\* one connect() installed.
oncloseAfterClose(s) ==
    /\ s \in 1..Len(ws.sockets)
    /\ ws.sockets[s] = "closing"
    /\ Len(ws.timers) < MaxTimers
    /\ ws' = [reconnect(ws) EXCEPT !.sockets[s] = "closed"]
    /\ event' = [op |-> "close", socket |-> s]
    /\ UNCHANGED << impl, zone, now, tradingDay, bids, requests, nextId, lock,
                    positions, view, chart >>

\* The reconnect timeout fires: connect().
reconnectFires(t, throws) ==
    /\ t \in pendingTimers(ws)
    /\ canConnect(ws, throws)
    /\ ws' = [connect([ws EXCEPT !.timers[t].state = "fired"], throws)
                 EXCEPT !.awaiting = throws /\ ~ws.stopped]
    /\ event' = [op |-> "timer", timer |-> t, throws |-> throws]
    /\ UNCHANGED << impl, zone, now, tradingDay, bids, requests, nextId, lock,
                    positions, view, chart >>

\* TradingDashboard unmounts: wsManager.disconnect().
disconnect ==
    /\ ws.mounted
    /\ ws' = [ws EXCEPT
                !.timers = clear(ws.timers, ws.reconnectTimeout, "cleared"),
                !.reconnectTimeout = NoHandle,
                !.intervals = clear(ws.intervals, ws.pingInterval, "cleared"),
                !.pingInterval = NoHandle,
                !.sockets = IF ws.current # NoHandle /\ ws.current \in liveSockets(ws)
                            THEN [ws.sockets EXCEPT ![ws.current] = "closing"]
                            ELSE ws.sockets,
                !.current = NoHandle,
                !.mounted = FALSE,
                !.stopped = TRUE]
    /\ event' = [op |-> "disconnect"]
    /\ UNCHANGED << impl, zone, now, tradingDay, bids, requests, nextId, lock,
                    positions, view, chart >>

-----------------------------------------------------------------------------
(* Runs about the connection: the dashboard mounts and unmounts, sockets     *)
(* open, fail and close, timeouts fire; at most MaxSockets sockets and       *)
(* MaxTimers timeouts.  A pending timeout fires in the end (setTimeout).     *)

WsConnect == \E throws \in BOOLEAN : wsConnect(throws)
WsOpen == \E s \in 1..Len(ws.sockets) : onopen(s)
WsClose == \E s \in 1..Len(ws.sockets) : onclose(s)
WsCloseAfterClose == \E s \in 1..Len(ws.sockets) : oncloseAfterClose(s)
WsTimer == \E t \in 1..Len(ws.timers), throws \in BOOLEAN : reconnectFires(t, throws)

NextWs ==
    \/ WsConnect
    \/ WsOpen
    \/ WsClose
    \/ WsCloseAfterClose
    \/ WsTimer
    \/ disconnect

SpecWs == InitChart /\ [][NextWs]_vars
SpecWsLive == InitChart /\ [][NextWs]_vars /\ WF_vars(WsTimer)

\* C23: from disconnect() until the owner's next connect(), no socket is
\* opened and no reconnect is scheduled, also when the close event of the
\* socket that disconnect() closed arrives afterwards.
C23_QuietAfterDisconnect ==
    [][ (ws.stopped /\ ws'.stopped)
          => /\ Len(ws'.sockets) = Len(ws.sockets)
             /\ pendingTimers(ws') \subseteq pendingTimers(ws) ]_vars

\* C24: when disconnect() returns, no ping interval and no reconnect timeout
\* of the manager is active, whatever connects, opens, closes and reconnects
\* came before.
C24_NothingActiveAfterDisconnect ==
    event.op = "disconnect"
       => activeIntervals(ws) = {} /\ pendingTimers(ws) = {}

\* C25: over a run of failed connection attempts each wait before the next
\* attempt is longer than the one before, growing exponentially (at least
\* doubling).
C25_ExponentialBackoff ==
    \A i \in 1..(Len(ws.waits) - 1) :
        /\ ws.waits[i + 1] > ws.waits[i]
        /\ ws.waits[i + 1] >= 2 * ws.waits[i]

\* C26: a socket that closes, or cannot be created, while disconnect() has
\* not been called is followed by a new connection attempt, and never is
\* more than one reconnect timeout pending.
C26_ReconnectIsAttempted ==
    /\ [](Cardinality(pendingTimers(ws)) <= 1)
    /\ ((ws.awaiting /\ ~ws.stopped) ~> (~ws.awaiting \/ ws.stopped))

\* C26's case: a socket closed while another reconnect timeout was pending,
\* the timeout fired without disconnect() and made the next socket.
C26_Witness ==
    /\ event.op = "timer"
    /\ ~event.throws
    /\ ~ws.stopped
    /\ ~ws.awaiting
    /\ \E t \in 1..Len(ws.timers) : ws.timers[t].state = "cleared"
    /\ ws.current = Len(ws.sockets)
    /\ \E s \in 1..Len(ws.sockets) : ws.sockets[s] = "closed"

-----------------------------------------------------------------------------
(* WebSocketManager: subscribers.  listeners is a Map from an event name to  *)
(* a Set of callbacks, kept here in the Set's insertion order.               *)

Callbacks == {"table", "stats", "chart"}

has(list, cb) == \E i \in 1..Len(list) : list[i] = cb

\* Set.add and Set.delete
added(list, cb) == IF has(list, cb) THEN list ELSE Append(list, cb)
deleted(list, cb) == SelectSeq(list, LAMBDA other : other # cb)

\* subscribe(event, callback)
subscribe(e, cb) ==
    /\ ws' = [ws EXCEPT !.listeners[e] = added(ws.listeners[e], cb),
                        !.dropped = ws.dropped \ {<< e, cb >>}]
    /\ event' = [op |-> "subscribe", event |-> e, callback |-> cb]
    /\ UNCHANGED << impl, zone, now, tradingDay, bids, requests, nextId, lock,
                    positions, view, chart >>

\* The function subscribe(event, callback) returned is called.
unsubscribe(e, cb) ==
    /\ has(ws.listeners[e], cb) \/ << e, cb >> \in ws.dropped
    /\ ws' = [ws EXCEPT !.listeners[e] = deleted(ws.listeners[e], cb),
                        !.dropped = ws.dropped \cup {<< e, cb >>}]
    /\ event' = [op |-> "unsubscribe", event |-> e, callback |-> cb]
    /\ UNCHANGED << impl, zone, now, tradingDay, bids, requests, nextId, lock,
                    positions, view, chart >>

\* notifyListeners: the callbacks called, in order.  A callback that throws
\* is caught inside the loop, so the loop goes on.
notifiedUntilThrow(list, throwers) ==
    SubSeq(list, 1, IF \E i \in 1..Len(list) : list[i] \in throwers
                    THEN CHOOSE i \in 1..Len(list) :
                            /\ list[i] \in throwers
                            /\ \A j \in 1..(i - 1) : list[j] \notin throwers
                    ELSE Len(list))
notifyListeners(list, throwers) == list

\* ws.onmessage: JSON.parse, then notifyListeners('price_update', message);
\* a frame that is not JSON is dropped in the catch block.
onmessage(s, parsed, throwers) ==
    /\ s \in 1..Len(ws.sockets)
    /\ ws.sockets[s] = "open"
    /\ event' = [op |-> "message", parsed |-> parsed, throwers |-> throwers,
                 invoked |-> IF parsed
                             THEN notifyListeners(ws.listeners["price_update"], throwers)
                             ELSE << >>]
    /\ UNCHANGED << impl, zone, now, tradingDay, bids, requests, nextId, lock,
                    positions, view, chart, ws >>

-----------------------------------------------------------------------------
(* Runs about the subscribers: one connection, components subscribing and    *)
(* unsubscribing around the messages, any of the callbacks throwing.         *)

SubConnect == wsConnect(FALSE)
SubSubscribe == \E e \in WsEvents, cb \in Callbacks : subscribe(e, cb)
SubUnsubscribe == \E e \in WsEvents, cb \in Callbacks : unsubscribe(e, cb)
SubMessage ==
    \E s \in 1..Len(ws.sockets), parsed \in BOOLEAN, throwers \in SUBSET Callbacks :
        onmessage(s, parsed, throwers)

NextSub ==
    \/ SubConnect
    \/ WsOpen
    \/ SubSubscribe
    \/ SubUnsubscribe
    \/ SubMessage

SpecSub == InitChart /\ [][NextSub]_vars

timesIn(list, cb) == Cardinality({i \in 1..Len(list) : list[i] = cb})

\* C30: once the unsubscribe function of a callback has been called the
\* callback is not called for any later message, and every callback still
\* subscribed is called exactly once for each message, also when another
\* callback throws.
C30_OnlySubscribersNotified ==
    (event.op = "message" /\ event.parsed)
       => /\ \A cb \in Callbacks :
                << "price_update", cb >> \in ws.dropped
                   => timesIn(event.invoked, cb) = 0
          /\ \A cb \in Callbacks :
                has(ws.listeners["price_update"], cb)
                   => timesIn(event.invoked, cb) = 1

\* C30's case: a message arrives while one callback has been unsubscribed and
\* two are subscribed, and the first of them throws.
C30_Witness ==
    /\ event.op = "message"
    /\ event.parsed
    /\ \E cb \in Callbacks : << "price_update", cb >> \in ws.dropped
    /\ Len(ws.listeners["price_update"]) = 2
    /\ ws.listeners["price_update"][1] \in event.throwers
    /\ Len(event.invoked) = 2

-----------------------------------------------------------------------------
(* Submitting the staged list, claims C27 - C29 *)

\* On the browser's clock: the trading day is today and the time of day is
\* before 11:00:00, or a full second or more past it.
beforeLocalCutoff(z, td, t) ==
    td # NoDay /\ isSameDay(z, td, t) => LocalTod(z, t) < CutoffTod
pastLocalCutoff(z, td, t) ==
    td # NoDay /\ isSameDay(z, td, t) /\ LocalTod(z, t) >= CutoffTod + SecondMs

\* C27: a click on Submit All Bids sends nothing and leaves the staged list
\* alone when the list is empty, no trading day is selected, or the trading
\* day is today and 11:00 has passed; in every other case it sends exactly
\* one request with all staged bids in order, their signed quantities and
\* the selected trading day.  (Within the second that starts at 11:00:00
\* either is accepted.)
C27_SubmitSendsOnce ==
    [][ event'.op = "submit"
          => /\ bids' = bids
             /\ (bids = << >> \/ tradingDay = NoDay
                 \/ pastLocalCutoff(zone, tradingDay, now))
                   => requests' = requests
             /\ (bids # << >> /\ tradingDay # NoDay
                 /\ beforeLocalCutoff(zone, tradingDay, now))
                   => requests' = Append(requests,
                                         Request(nextId, "ui", bids, tradingDay)) ]_vars

\* C28: the answer to a successful submission empties the staged list; a
\* failed request leaves the staged list as it is and the form ready to
\* submit it again.
C28_ListAfterSubmission ==
    [][ /\ event'.op = "success" => bids' = << >>
        /\ event'.op = "error"
              => /\ bids' = bids
                 /\ ~(\E i \in 1..Len(requests') : requests'[i].from = "ui") ]_vars

\* C28's case: of two requests the form sent, one failed and the other, with
\* the same list still staged, was taken and emptied the list.
C28_Witness ==
    /\ event.op = "success"
    /\ nextId = 3
    /\ bids = << >>
    /\ positions # << >>
    /\ Len(positions) = Len(event.sent)

\* C29: while a request of the form is in flight the form sends no other
\* one, whatever the user adds, removes, clears or clicks in between.
C29_OneRequestInFlight ==
    Cardinality({i \in 1..Len(requests) : requests[i].from = "ui"}) <= 1

\* C29's case: a request is in flight, the server has not answered, and the
\* user has since added a bid to the list it carries.
C29_Witness ==
    /\ event.op = "add"
    /\ event.outcome = "staged"
    /\ \E i \in 1..Len(requests) :
          /\ requests[i].from = "ui"
          /\ requests[i].pc # "done"
          /\ Len(bids) = Len(requests[i].bids) + 1

====
